---------------------------- MODULE Spec2Model ----------------------------
(***************************************************************************)
(* A model of pkg/config/config.go: the two swappable ISO creation         *)
(* functions, createIsoConfigImage and its two default strategies,         *)
(* findIsoSize and getFilesLayout.                                         *)
(*                                                                         *)
(* Files are modelled by what the code can observe or change of them:      *)
(* whether they exist, their logical length and whether their bytes are    *)
(* holes (never written), other data, or an ISO image built by xorrisofs.  *)
(* Paths handed to getFilesLayout are sequences of one-character strings,  *)
(* so that filepath.Join and filepath.Clean are computed, not assumed.     *)
(***************************************************************************)
EXTENDS Integers, Sequences, FiniteSets, TLC

VARIABLES
    createISOImage,       \* config.go:78, the populated-image slot
    createEmptyISOImage,  \* config.go:79, the empty-image slot
    lastSet,              \* history: the argument last given to each setter
    fs,                   \* output path -> file state
    vmi,                  \* vmi.Status.VolumeStatus, a list of [Name, Size]
    found,                \* the last findIsoSize call and what it returned
    ret,                  \* the last setter or createIsoConfigImage call and what it returned
    calls,                \* the strategy invocations made by the last createIsoConfigImage call
    cmds,                 \* the external commands run by the last createIsoConfigImage call
    tree,                 \* the directory tree getFilesLayout lists
    layout,               \* the last getFilesLayout call and what it returned
    pc,                   \* concurrent builds: each build's position
    frame                 \* concurrent builds: each build's arguments and locals

vars == <<createISOImage, createEmptyISOImage, lastSet, fs, vmi, found, ret,
          calls, cmds, tree, layout, pc, frame>>

---------------------------------------------------------------------------
(* Bounds and input sets *)

MaxSize == 2
MaxVolumes == 2
MaxPathLen == 4

Sizes == (0 - 1) .. MaxSize
OutputPaths == {"p1", "p2"}
VolIDs == {"", "vol1"}
FileLists == {<<>>, <<"a=/src/a">>}
VolumeNames == {"v1", "v2"}

IsoFuncs == {"defaultCreateIsoImage", "fakeIsoA", "fakeIsoB"}
EmptyIsoFuncs == {"defaultCreateEmptyIsoImage", "fakeEmptyA", "fakeEmptyB"}

---------------------------------------------------------------------------
(* Errors: every error value is a record, nil included *)

Nil == [msg |-> "nil", arg |-> ""]
CreateErr(output) == [msg |-> "failed to create empty iso", arg |-> output]
InflateErr(output) == [msg |-> "failed to inflate empty iso", arg |-> output]
ExecErr == [msg |-> "exit status 1", arg |-> "xorrisofs"]
FakeErr == [msg |-> "fake failure", arg |-> ""]
NotFoundErr(name) == [msg |-> "failed to find the status of volume", arg |-> name]

---------------------------------------------------------------------------
(* File states *)

NoFile == [kind |-> "absent"]
RawFile(len, data) == [kind |-> "file", len |-> len, data |-> data]
IsoFile(volid, files) == [kind |-> "iso", volid |-> volid, files |-> files]
PartialFile == [kind |-> "partial"]

\* A file that was there before any call: other content, some length.
OldFiles == {RawFile(n, "other") : n \in 1 .. MaxSize}

\* Mutant: os.Create without O_TRUNC, which keeps an existing file's content.
OsCreateNoTrunc(f) ==
    {[ok |-> TRUE, file |-> IF f = NoFile THEN RawFile(0, "holes") ELSE f],
     [ok |-> FALSE, file |-> f]}

\* os.Create (config.go:136): O_RDWR|O_CREATE|O_TRUNC. It either fails and
\* leaves the path as it was, or leaves an empty file there.
OsCreate(f) ==
    {[ok |-> TRUE, file |-> RawFile(0, "holes")], [ok |-> FALSE, file |-> f]}

\* The file after a successful ftruncate to size >= 0: the bytes kept are the
\* old ones, the bytes added are holes.
Resize(f, size) ==
    RawFile(size,
            IF size > 0 /\ (f.kind # "file" \/ (f.len > 0 /\ f.data = "other"))
            THEN "other" ELSE "holes")

\* f.Truncate (config.go:140): EINVAL for a negative size; otherwise it sets the
\* length, or fails (EFBIG, EIO, ...) and leaves the file as it was.
FTruncate(f, size) ==
    IF size < 0
    THEN {[ok |-> FALSE, file |-> f]}
    ELSE {[ok |-> TRUE, file |-> Resize(f, size)], [ok |-> FALSE, file |-> f]}

---------------------------------------------------------------------------
(* The two default strategies and the fakes a test stores in the slots.    *)
(* Each gives the set of outcomes [err, file, cmds] of one invocation on   *)
(* an output path whose file is f.                                         *)

\* Mutant: no fallback label.
VolIDUnchanged(volID) == volID

\* config.go:107-109.
VolIDOrDefault(volID) == IF volID = "" THEN "cfgdata" ELSE volID

XorrisofsArgs(output, volID, files) ==
    <<"-output", output, "-follow-links", "-volid", VolIDOrDefault(volID),
      "-joliet", "-rock", "-graft-points", "-partition_cyl_align", "on">> \o files

\* cmd.Run of xorrisofs (config.go:124-128), first half: the tool starts
\* writing the -output path, or fails before it touched it (the binary cannot
\* be started, a graft point cannot be read).
XorrisofsStart(f) ==
    {[ok |-> TRUE, file |-> PartialFile], [ok |-> FALSE, file |-> f]}

\* Second half: exit 0 with the image written under the -volid label from the
\* graft points, or a failure that leaves the output half written.
XorrisofsFinish(f, args) ==
    {[ok |-> TRUE, file |-> IsoFile(args[5], SubSeq(args, 11, Len(args)))],
     [ok |-> FALSE, file |-> f]}

Xorrisofs(f, args) ==
    {s \in XorrisofsStart(f) : ~s.ok}
    \cup UNION {XorrisofsFinish(s.file, args) : s \in {s \in XorrisofsStart(f) : s.ok}}

DefaultCreateIsoImage(f, output, volID, files) ==
    LET args == XorrisofsArgs(output, volID, files)
    IN  {[err |-> IF r.ok THEN Nil ELSE ExecErr,
          file |-> r.file,
          cmds |-> <<[bin |-> "xorrisofs", args |-> args]>>] : r \in Xorrisofs(f, args)}

\* Mutant: the file is removed again when it cannot be inflated.
DefaultCreateEmptyIsoImageCleanup(f, output, size) ==
    LET created == OsCreate(f)
    IN  {[err |-> CreateErr(output), file |-> c.file, cmds |-> <<>>] :
            c \in {c \in created : ~c.ok}}
        \cup
        UNION {{[err |-> IF t.ok THEN Nil ELSE InflateErr(output),
                 file |-> IF t.ok THEN t.file ELSE NoFile, cmds |-> <<>>] :
                    t \in FTruncate(c.file, size)} :
               c \in {c \in created : c.ok}}

\* config.go:135-146.
DefaultCreateEmptyIsoImage(f, output, size) ==
    LET created == OsCreate(f)
    IN  {[err |-> CreateErr(output), file |-> c.file, cmds |-> <<>>] :
            c \in {c \in created : ~c.ok}}
        \cup
        UNION {{[err |-> IF t.ok THEN Nil ELSE InflateErr(output),
                 file |-> t.file, cmds |-> <<>>] : t \in FTruncate(c.file, size)} :
               c \in {c \in created : c.ok}}

\* A test double: it records its arguments (in calls), touches no file and
\* returns nil or an error of its own.
FakeStrategy(f) ==
    {[err |-> e, file |-> f, cmds |-> <<>>] : e \in {Nil, FakeErr}}

InvokeIso(fn, f, output, volID, files) ==
    IF fn = "defaultCreateIsoImage"
    THEN DefaultCreateIsoImage(f, output, volID, files)
    ELSE FakeStrategy(f)

InvokeEmptyIso(fn, f, output, size) ==
    IF fn = "defaultCreateEmptyIsoImage"
    THEN DefaultCreateEmptyIsoImage(f, output, size)
    ELSE FakeStrategy(f)

---------------------------------------------------------------------------
(* createIsoConfigImage (config.go:148-159) *)

\* Mutant: a negative size builds a populated image too.
IsPopulatedNonPositive(size) == size <= 0

\* config.go:150, the dispatch test.
IsPopulated(size) == size = 0

\* The invocations createIsoConfigImage makes and what it returns: one record
\* [calls, err, file, cmds] per possible outcome.
CreateIsoConfigImageOutcomes(isoFn, emptyFn, f, output, volID, files, size) ==
    IF IsPopulated(size)
    THEN {[calls |-> <<[fn |-> isoFn, kind |-> "iso",
                        args |-> <<output, volID, files>>, err |-> o.err]>>,
           err |-> o.err, file |-> o.file, cmds |-> o.cmds] :
              o \in InvokeIso(isoFn, f, output, volID, files)}
    ELSE {[calls |-> <<[fn |-> emptyFn, kind |-> "empty",
                        args |-> <<output, size>>, err |-> o.err]>>,
           err |-> o.err, file |-> o.file, cmds |-> o.cmds] :
              o \in InvokeEmptyIso(emptyFn, f, output, size)}

CreateIsoConfigImage(output, volID, files, size) ==
    \E o \in CreateIsoConfigImageOutcomes(createISOImage, createEmptyISOImage,
                                          fs[output], output, volID, files, size) :
        /\ fs' = [fs EXCEPT ![output] = o.file]
        /\ calls' = o.calls
        /\ cmds' = o.cmds
        /\ ret' = [op |-> "createIsoConfigImage", output |-> output, volID |-> volID,
                   files |-> files, size |-> size, err |-> o.err, before |-> fs[output]]
        /\ UNCHANGED <<createISOImage, createEmptyISOImage, lastSet, vmi, found,
                       tree, layout, pc, frame>>

---------------------------------------------------------------------------
(* The setters (config.go:82-90) *)

SetIsoCreationFunction(isoFunc) ==
    /\ createISOImage' = isoFunc
    /\ lastSet' = [lastSet EXCEPT !.iso = isoFunc]
    /\ ret' = [op |-> "setIsoCreationFunction", fn |-> isoFunc]
    /\ calls' = <<>>
    /\ cmds' = <<>>
    /\ UNCHANGED <<createEmptyISOImage, fs, vmi, found, tree, layout, pc, frame>>

\* Mutant: the setter of the empty-image slot stores into the other slot.
SetEmptyIsoCreationFunctionOtherSlot(emptyIsoFunc) ==
    /\ createISOImage' = emptyIsoFunc
    /\ lastSet' = [lastSet EXCEPT !.empty = emptyIsoFunc]
    /\ ret' = [op |-> "setEmptyIsoCreationFunction", fn |-> emptyIsoFunc]
    /\ calls' = <<>>
    /\ cmds' = <<>>
    /\ UNCHANGED <<createEmptyISOImage, fs, vmi, found, tree, layout, pc, frame>>

SetEmptyIsoCreationFunction(emptyIsoFunc) ==
    /\ createEmptyISOImage' = emptyIsoFunc
    /\ lastSet' = [lastSet EXCEPT !.empty = emptyIsoFunc]
    /\ ret' = [op |-> "setEmptyIsoCreationFunction", fn |-> emptyIsoFunc]
    /\ calls' = <<>>
    /\ cmds' = <<>>
    /\ UNCHANGED <<createISOImage, fs, vmi, found, tree, layout, pc, frame>>

---------------------------------------------------------------------------
(* findIsoSize (config.go:161-171) *)

\* Mutant: the scan does not stop at the first match.
RECURSIVE LastVolumeStatus(_, _)
LastVolumeStatus(statuses, name) ==
    IF statuses = <<>>
    THEN [ok |-> FALSE, size |-> 0]
    ELSE LET rest == LastVolumeStatus(Tail(statuses), name)
         IN  IF rest.ok \/ Head(statuses).Name # name
             THEN rest
             ELSE [ok |-> TRUE, size |-> Head(statuses).Size]

\* The loop of config.go:163-167: the first entry named name, if any.
RECURSIVE FirstVolumeStatus(_, _)
FirstVolumeStatus(statuses, name) ==
    IF statuses = <<>>
    THEN [ok |-> FALSE, size |-> 0]
    ELSE IF Head(statuses).Name = name
         THEN [ok |-> TRUE, size |-> Head(statuses).Size]
         ELSE FirstVolumeStatus(Tail(statuses), name)

\* Mutant: the status is scanned whether or not an empty image is wanted.
FindIsoSizeResultAlwaysScan(statuses, name, emptyIso) ==
    LET vs == FirstVolumeStatus(statuses, name)
    IN  IF vs.ok
        THEN [size |-> IF emptyIso THEN vs.size ELSE 0, err |-> Nil]
        ELSE [size |-> 0, err |-> NotFoundErr(name)]

FindIsoSizeResult(statuses, name, emptyIso) ==
    IF emptyIso
    THEN LET vs == FirstVolumeStatus(statuses, name)
         IN  IF vs.ok
             THEN [size |-> vs.size, err |-> Nil]
             ELSE [size |-> 0, err |-> NotFoundErr(name)]
    ELSE [size |-> 0, err |-> Nil]

FindIsoSize(name, emptyIso) ==
    LET r == FindIsoSizeResult(vmi, name, emptyIso)
    IN  /\ found' = [op |-> "findIsoSize", vmi |-> vmi, volume |-> name,
                     emptyIso |-> emptyIso, size |-> r.size, err |-> r.err]
        /\ UNCHANGED <<vmi, createISOImage, createEmptyISOImage, lastSet, fs, ret,
                       calls, cmds, tree, layout, pc, frame>>

---------------------------------------------------------------------------
(* getFilesLayout (config.go:92-103).  A path is a sequence of characters;  *)
(* a directory tree is [dirs, files], two sets of nodes, a node being the   *)
(* sequence of names that leads to it from the root (<<>>).                 *)

\* The characters of the paths handed to getFilesLayout, and the entry names.
PathChars == {"/", ".", "d"}
Names == {<<"a">>, <<"d">>}
Dot == <<".">>
DotDot == <<".", ".">>
ReadDirErr == [msg |-> "open or readdir failed", arg |-> ""]

\* strings.Split(p, "/")
RECURSIVE Split(_)
Split(p) ==
    IF p = <<>>
    THEN << <<>> >>
    ELSE LET rest == Split(Tail(p))
         IN  IF Head(p) = "/"
             THEN << <<>> >> \o rest
             ELSE << <<Head(p)>> \o Head(rest) >> \o Tail(rest)

\* strings.Join(comps, "/")
RECURSIVE JoinSlash(_)
JoinSlash(comps) ==
    IF comps = <<>> THEN <<>>
    ELSE IF Len(comps) = 1 THEN Head(comps)
    ELSE Head(comps) \o <<"/">> \o JoinSlash(Tail(comps))

\* The elements filepath.Clean keeps: empty and "." elements are dropped, ".."
\* removes the element before it, or is dropped at the root, or is kept at the
\* start of a relative path.
RECURSIVE CleanElements(_, _, _)
CleanElements(comps, kept, rooted) ==
    IF comps = <<>> THEN kept
    ELSE LET c == Head(comps)
         IN  IF c = <<>> \/ c = Dot
             THEN CleanElements(Tail(comps), kept, rooted)
             ELSE IF c = DotDot
             THEN IF kept # <<>> /\ kept[Len(kept)] # DotDot
                  THEN CleanElements(Tail(comps), SubSeq(kept, 1, Len(kept) - 1), rooted)
                  ELSE IF rooted
                  THEN CleanElements(Tail(comps), kept, rooted)
                  ELSE CleanElements(Tail(comps), Append(kept, DotDot), rooted)
             ELSE CleanElements(Tail(comps), Append(kept, c), rooted)

\* filepath.Clean
Clean(p) ==
    IF p = <<>> THEN Dot
    ELSE LET rooted == p[1] = "/"
             out == (IF rooted THEN <<"/">> ELSE <<>>)
                    \o JoinSlash(CleanElements(Split(p), <<>>, rooted))
         IN  IF out = <<>> THEN Dot ELSE out

\* Mutant: the two elements are concatenated and not cleaned.
JoinNoClean(dir, name) == dir \o <<"/">> \o name

\* filepath.Join(dir, name) (config.go:100): the non-empty elements joined by
\* "/" and cleaned; "" when both are empty.
Join(dir, name) ==
    IF dir # <<>> THEN Clean(dir \o <<"/">> \o name)
    ELSE IF name # <<>> THEN Clean(name)
    ELSE <<>>

Root == <<>>
Parent(node) == IF node = Root THEN Root ELSE SubSeq(node, 1, Len(node) - 1)

\* The kernel's walk of a path's elements from directory cur: it fails on an
\* element that is not a directory (ENOENT, ENOTDIR).
RECURSIVE Walk(_, _, _)
Walk(t, cur, comps) ==
    IF comps = <<>> THEN [ok |-> TRUE, node |-> cur]
    ELSE LET c == Head(comps)
         IN  IF c = <<>> \/ c = Dot THEN Walk(t, cur, Tail(comps))
             ELSE IF c = DotDot THEN Walk(t, Parent(cur), Tail(comps))
             ELSE IF Append(cur, c) \in t.dirs THEN Walk(t, Append(cur, c), Tail(comps))
             ELSE [ok |-> FALSE, node |-> cur]

\* The directory a path names; the working directory is the root.
Lookup(t, p) ==
    IF p = <<>> THEN [ok |-> FALSE, node |-> Root] ELSE Walk(t, Root, Split(p))

\* The names of the immediate entries of a directory.
EntryNames(t, dir) ==
    {n[Len(n)] : n \in {m \in t.dirs \cup t.files :
                            Len(m) = Len(dir) + 1 /\ SubSeq(m, 1, Len(dir)) = dir}}

CharRank(c) == CASE c = "." -> 46 [] c = "/" -> 47 [] c = "a" -> 97 [] c = "d" -> 100

RECURSIVE NameLess(_, _)
NameLess(x, y) ==
    IF y = <<>> THEN FALSE
    ELSE IF x = <<>> THEN TRUE
    ELSE IF Head(x) = Head(y) THEN NameLess(Tail(x), Tail(y))
    ELSE CharRank(Head(x)) < CharRank(Head(y))

\* sort.Slice by Name, as ioutil.ReadDir returns its list.
SortedNames(S) ==
    CHOOSE q \in [1 .. Cardinality(S) -> S] :
        \A i, j \in 1 .. Cardinality(S) : i < j => NameLess(q[i], q[j])

\* Mutant: the listing descends into the subdirectories.
ReadDirRecursive(t, p) ==
    LET d == Lookup(t, p)
    IN  IF ~d.ok THEN {[ok |-> FALSE, names |-> <<>>]}
        ELSE {[ok |-> TRUE,
               names |-> SortedNames(EntryNames(t, d.node) \cup
                            UNION {EntryNames(t, Append(d.node, n)) : n \in Names})],
              [ok |-> FALSE, names |-> <<>>]}

\* ioutil.ReadDir (config.go:94): the whole sorted list, or an error and no
\* list (the path names no directory, or the directory cannot be read).
ReadDir(t, p) ==
    LET d == Lookup(t, p)
    IN  IF ~d.ok THEN {[ok |-> FALSE, names |-> <<>>]}
        ELSE {[ok |-> TRUE, names |-> SortedNames(EntryNames(t, d.node))],
              [ok |-> FALSE, names |-> <<>>]}

GetFilesLayoutResult(t, dirPath) ==
    {IF r.ok
     THEN [files |-> [i \in 1 .. Len(r.names) |->
                        r.names[i] \o <<"=">> \o Join(dirPath, r.names[i])],
           err |-> Nil]
     ELSE [files |-> <<>>, err |-> ReadDirErr] : r \in ReadDir(t, dirPath)}

GetFilesLayout(dirPath) ==
    \E r \in GetFilesLayoutResult(tree, dirPath) :
        /\ layout' = [op |-> "getFilesLayout", dirPath |-> dirPath,
                      files |-> r.files, err |-> r.err]
        /\ UNCHANGED <<createISOImage, createEmptyISOImage, lastSet, fs, vmi, found,
                       ret, calls, cmds, tree, pc, frame>>

---------------------------------------------------------------------------
(* The builder with its slots, one call at a time *)

EmptyTree == [dirs |-> {Root}, files |-> {}]
NoCall == [op |-> "none"]
NoLayout == [op |-> "none"]
NoFound == [op |-> "none"]
Procs == {"b1", "b2"}

InitSlots ==
    /\ createISOImage = "defaultCreateIsoImage"
    /\ createEmptyISOImage = "defaultCreateEmptyIsoImage"
    /\ lastSet = [iso |-> "defaultCreateIsoImage", empty |-> "defaultCreateEmptyIsoImage"]

InitIdle ==
    /\ ret = NoCall
    /\ calls = <<>>
    /\ cmds = <<>>
    /\ found = NoFound
    /\ layout = NoLayout
    /\ pc = [p \in Procs |-> "idle"]
    /\ frame = [p \in Procs |-> [op |-> "none"]]

Init ==
    /\ InitSlots
    /\ InitIdle
    /\ fs \in [OutputPaths -> {NoFile} \cup OldFiles]
    /\ vmi = <<>>
    /\ tree = EmptyTree

Next ==
    \/ \E f \in IsoFuncs : SetIsoCreationFunction(f)
    \/ \E f \in EmptyIsoFuncs : SetEmptyIsoCreationFunction(f)
    \/ \E output \in OutputPaths, volID \in VolIDs, files \in FileLists, size \in Sizes :
          CreateIsoConfigImage(output, volID, files, size)

Spec == Init /\ [][Next]_vars

---------------------------------------------------------------------------
(* The size resolver feeding the builder: any status, any slots *)

VolumeStatuses == [Name : VolumeNames, Size : 0 .. MaxSize]

StatusLists == UNION {[1 .. n -> VolumeStatuses] : n \in 0 .. MaxVolumes}

InitSize ==
    /\ createISOImage \in {"defaultCreateIsoImage", "fakeIsoA"}
    /\ createEmptyISOImage \in {"defaultCreateEmptyIsoImage", "fakeEmptyA"}
    /\ lastSet = [iso |-> createISOImage, empty |-> createEmptyISOImage]
    /\ InitIdle
    /\ fs = [p \in OutputPaths |-> NoFile]
    /\ vmi \in StatusLists
    /\ tree = EmptyTree

NextSize ==
    \/ \E name \in VolumeNames, emptyIso \in BOOLEAN : FindIsoSize(name, emptyIso)
    \/ \E size \in Sizes : CreateIsoConfigImage("p1", "", <<>>, size)

SpecSize == InitSize /\ [][NextSize]_vars

---------------------------------------------------------------------------
(* The layout resolver on small directory trees *)

\* What one name of the root can be: absent, a file, or a directory holding
\* any of the names as files.
Subtrees(n) ==
    {[dirs |-> {}, files |-> {}], [dirs |-> {}, files |-> {<<n>>}]}
    \cup {[dirs |-> {<<n>>}, files |-> {<<n, m>> : m \in S}] : S \in SUBSET Names}

Trees ==
    {[dirs |-> {Root} \cup a.dirs \cup d.dirs, files |-> a.files \cup d.files] :
        a \in Subtrees(<<"a">>), d \in Subtrees(<<"d">>)}

DirPaths == UNION {[1 .. n -> PathChars] : n \in 0 .. MaxPathLen}

InitLayout ==
    /\ InitSlots
    /\ InitIdle
    /\ fs = [p \in OutputPaths |-> NoFile]
    /\ vmi = <<>>
    /\ tree \in Trees

NextLayout == \E dirPath \in DirPaths : GetFilesLayout(dirPath)

SpecLayout == InitLayout /\ [][NextLayout]_vars

---------------------------------------------------------------------------
(* Builds in separate goroutines, one step of createIsoConfigImage and of   *)
(* the default strategies at a time; no setter is called.                   *)

InFlight(p) == pc[p] \notin {"idle", "done"}

Call(p, output, volID, files, size) ==
    /\ pc[p] = "idle"
    /\ pc' = [pc EXCEPT ![p] = "dispatch"]
    /\ frame' = [frame EXCEPT ![p] =
                    [op |-> "createIsoConfigImage", output |-> output, volID |-> volID,
                     files |-> files, size |-> size, fn |-> "", err |-> Nil,
                     before |-> fs[output],
                     overlap |-> \E q \in Procs \ {p} : InFlight(q)]]
    /\ UNCHANGED <<createISOImage, createEmptyISOImage, lastSet, fs, vmi, found, ret,
                   calls, cmds, tree, layout>>

\* config.go:150-154: the slot is read and the function in it is entered.
Dispatch(p) ==
    /\ pc[p] = "dispatch"
    /\ LET fn == IF IsPopulated(frame[p].size) THEN createISOImage ELSE createEmptyISOImage
       IN  /\ frame' = [frame EXCEPT ![p].fn = fn]
           /\ pc' = [pc EXCEPT ![p] =
                        IF fn = "defaultCreateIsoImage" THEN "exec"
                        ELSE IF fn = "defaultCreateEmptyIsoImage" THEN "create"
                        ELSE "fake"]
    /\ UNCHANGED <<createISOImage, createEmptyISOImage, lastSet, fs, vmi, found, ret,
                   calls, cmds, tree, layout>>

\* Mutant: every build creates its file at one fixed path.
OsCreateStepFixedPath(p) ==
    /\ pc[p] = "create"
    /\ \E c \in OsCreate(fs["p1"]) :
          /\ fs' = [fs EXCEPT !["p1"] = c.file]
          /\ frame' = [frame EXCEPT ![p].err =
                          IF c.ok THEN Nil ELSE CreateErr(frame[p].output)]
          /\ pc' = [pc EXCEPT ![p] = IF c.ok THEN "truncate" ELSE "return"]
    /\ UNCHANGED <<createISOImage, createEmptyISOImage, lastSet, vmi, found, ret,
                   calls, cmds, tree, layout>>

\* config.go:136-139
OsCreateStep(p) ==
    /\ pc[p] = "create"
    /\ \E c \in OsCreate(fs[frame[p].output]) :
          /\ fs' = [fs EXCEPT ![frame[p].output] = c.file]
          /\ frame' = [frame EXCEPT ![p].err =
                          IF c.ok THEN Nil ELSE CreateErr(frame[p].output)]
          /\ pc' = [pc EXCEPT ![p] = IF c.ok THEN "truncate" ELSE "return"]
    /\ UNCHANGED <<createISOImage, createEmptyISOImage, lastSet, vmi, found, ret,
                   calls, cmds, tree, layout>>

\* config.go:140-145
TruncateStep(p) ==
    /\ pc[p] = "truncate"
    /\ \E t \in FTruncate(fs[frame[p].output], frame[p].size) :
          /\ fs' = [fs EXCEPT ![frame[p].output] = t.file]
          /\ frame' = [frame EXCEPT ![p].err =
                          IF t.ok THEN Nil ELSE InflateErr(frame[p].output)]
    /\ pc' = [pc EXCEPT ![p] = "return"]
    /\ UNCHANGED <<createISOImage, createEmptyISOImage, lastSet, vmi, found, ret,
                   calls, cmds, tree, layout>>

\* config.go:127-128, the external tool starting.
ExecStep(p) ==
    /\ pc[p] = "exec"
    /\ \E s \in XorrisofsStart(fs[frame[p].output]) :
          /\ fs' = [fs EXCEPT ![frame[p].output] = s.file]
          /\ frame' = [frame EXCEPT ![p].err = IF s.ok THEN Nil ELSE ExecErr]
          /\ pc' = [pc EXCEPT ![p] = IF s.ok THEN "wait" ELSE "return"]
    /\ UNCHANGED <<createISOImage, createEmptyISOImage, lastSet, vmi, found, ret,
                   calls, cmds, tree, layout>>

\* config.go:128-132, the external tool ending.
WaitStep(p) ==
    /\ pc[p] = "wait"
    /\ \E s \in XorrisofsFinish(fs[frame[p].output],
                                 XorrisofsArgs(frame[p].output, frame[p].volID,
                                               frame[p].files)) :
          /\ fs' = [fs EXCEPT ![frame[p].output] = s.file]
          /\ frame' = [frame EXCEPT ![p].err = IF s.ok THEN Nil ELSE ExecErr]
    /\ pc' = [pc EXCEPT ![p] = "return"]
    /\ UNCHANGED <<createISOImage, createEmptyISOImage, lastSet, vmi, found, ret,
                   calls, cmds, tree, layout>>

\* A test double in the slot: it returns nil or its own error.
FakeStep(p) ==
    /\ pc[p] = "fake"
    /\ \E o \in FakeStrategy(fs[frame[p].output]) :
          frame' = [frame EXCEPT ![p].err = o.err]
    /\ pc' = [pc EXCEPT ![p] = "return"]
    /\ UNCHANGED <<createISOImage, createEmptyISOImage, lastSet, fs, vmi, found, ret,
                   calls, cmds, tree, layout>>

\* config.go:155-158
Return(p) ==
    /\ pc[p] = "return"
    /\ pc' = [pc EXCEPT ![p] = "done"]
    /\ UNCHANGED <<createISOImage, createEmptyISOImage, lastSet, fs, vmi, found, ret,
                   calls, cmds, tree, layout, frame>>

InitConc ==
    /\ createISOImage \in {"defaultCreateIsoImage", "fakeIsoA"}
    /\ createEmptyISOImage \in {"defaultCreateEmptyIsoImage", "fakeEmptyA"}
    /\ lastSet = [iso |-> createISOImage, empty |-> createEmptyISOImage]
    /\ InitIdle
    /\ fs \in [OutputPaths -> {NoFile, RawFile(MaxSize, "other")}]
    /\ vmi = <<>>
    /\ tree = EmptyTree

NextConc ==
    \E p \in Procs :
        \/ \E output \in OutputPaths, size \in Sizes :
              Call(p, output, "", <<"a=/src/a">>, size)
        \/ Dispatch(p)
        \/ OsCreateStep(p)
        \/ TruncateStep(p)
        \/ ExecStep(p)
        \/ WaitStep(p)
        \/ FakeStep(p)
        \/ Return(p)

SpecConc == InitConc /\ [][NextConc]_vars

---------------------------------------------------------------------------
(* Claims about the builder and its slots, checked under Spec *)

Built == ret.op = "createIsoConfigImage"

\* C2: every createIsoConfigImage call invokes exactly one strategy exactly
\* once: for size 0 the function in the populated-image slot with (output,
\* volID, files); for any other size, negative ones included, the function in
\* the empty-image slot with (output, size), and then the outcome does not
\* depend on files.
C2_DispatchExactlyOnce ==
    /\ Built =>
          /\ Len(calls) = 1
          /\ IF ret.size = 0
             THEN /\ calls[1].kind = "iso"
                  /\ calls[1].fn = createISOImage
                  /\ calls[1].args = <<ret.output, ret.volID, ret.files>>
             ELSE /\ calls[1].kind = "empty"
                  /\ calls[1].fn = createEmptyISOImage
                  /\ calls[1].args = <<ret.output, ret.size>>
                  /\ cmds = <<>>
    /\ \A output \in OutputPaths, volID \in VolIDs, size \in Sizes \ {0} :
          \A f1, f2 \in FileLists :
             {[err |-> o.err, file |-> o.file] :
                 o \in CreateIsoConfigImageOutcomes(createISOImage, createEmptyISOImage,
                                                    fs[output], output, volID, f1, size)}
             = {[err |-> o.err, file |-> o.file] :
                 o \in CreateIsoConfigImageOutcomes(createISOImage, createEmptyISOImage,
                                                    fs[output], output, volID, f2, size)}

C2_Witness ==
    /\ Built
    /\ ret.size < 0
    /\ ret.files # <<>>
    /\ calls[1].kind = "empty"
    /\ calls[1].fn = "fakeEmptyA"

\* The volume ID a populated build ends up using: the -volid argument of the
\* external command when one was run, else the ID the strategy was handed.
UsedVolID == IF cmds # <<>> THEN cmds[1].args[5] ELSE calls[1].args[2]

\* C3 as stated: for size 0 and an empty caller-supplied volume ID, whichever
\* function is in the populated-image slot gets "cfgdata"; a non-empty ID is
\* passed through.
C3_DefaultedForAnyStrategy ==
    (Built /\ ret.size = 0) =>
        UsedVolID = (IF ret.volID = "" THEN "cfgdata" ELSE ret.volID)

\* C3 amended: for size 0 the function in the populated-image slot is handed
\* the caller's volume ID unchanged, the empty one included; it is
\* defaultCreateIsoImage that labels the image "cfgdata" for an empty ID (and
\* with the caller's ID otherwise), so an override sees "".
C3_DefaultedByDefaultStrategy ==
    (Built /\ ret.size = 0) =>
        /\ calls[1].args[2] = ret.volID
        /\ IF calls[1].fn = "defaultCreateIsoImage"
           THEN /\ Len(cmds) = 1
                /\ cmds[1].args[4] = "-volid"
                /\ cmds[1].args[5] = (IF ret.volID = "" THEN "cfgdata" ELSE ret.volID)
                /\ ret.err = Nil =>
                      /\ fs[ret.output].kind = "iso"
                      /\ fs[ret.output].volid =
                            (IF ret.volID = "" THEN "cfgdata" ELSE ret.volID)
           ELSE cmds = <<>>

C3_Witness ==
    /\ Built
    /\ ret.size = 0
    /\ ret.volID = ""
    /\ calls[1].fn = "defaultCreateIsoImage"
    /\ ret.err = Nil
    /\ fs[ret.output].volid = "cfgdata"

\* Each slot holds what its own setter was last given, and a build invokes
\* what the slot holds.
C6_SlotInvariant ==
    /\ createISOImage = lastSet.iso
    /\ createEmptyISOImage = lastSet.empty
    /\ Built => calls[1].fn = (IF ret.size = 0 THEN lastSet.iso ELSE lastSet.empty)

\* A slot changes only in a call of its own setter, to that call's argument.
C6_SlotStep ==
    /\ createISOImage' # createISOImage =>
          ret'.op = "setIsoCreationFunction" /\ createISOImage' = ret'.fn
    /\ createEmptyISOImage' # createEmptyISOImage =>
          ret'.op = "setEmptyIsoCreationFunction" /\ createEmptyISOImage' = ret'.fn

\* C6: each slot holds what its own setter was last given (the default when
\* the setter was never called), a build invokes what the slot holds, and a
\* slot changes only in a call of its own setter: never in a build, failed or
\* not, and never in a call of the other setter.
C6_SlotsFollowSetters == []C6_SlotInvariant /\ [][C6_SlotStep]_vars

C6_Witness ==
    /\ Built
    /\ ret.err # Nil
    /\ ret.size # 0
    /\ calls[1].fn = "fakeEmptyB"
    /\ createEmptyISOImage = "fakeEmptyB"
    /\ createISOImage = "fakeIsoA"

\* C7: when a build with size # 0 that ran defaultCreateEmptyIsoImage returns
\* nil, the output path holds a file of exactly size bytes, none of them
\* written, whatever was at the path before.
C7_EmptyImageHasSize ==
    (/\ Built
     /\ ret.size # 0
     /\ calls[1].fn = "defaultCreateEmptyIsoImage"
     /\ ret.err = Nil) =>
        fs[ret.output] = RawFile(ret.size, "holes")

C7_Witness ==
    /\ Built
    /\ calls[1].fn = "defaultCreateEmptyIsoImage"
    /\ ret.err = Nil
    /\ ret.before \in OldFiles
    /\ ret.before.len # ret.size
    /\ fs[ret.output].len = ret.size

\* C9: createIsoConfigImage returns exactly the error of the one strategy
\* invocation it made (nil when that returned nil), and removes nothing: after
\* a failed create the path is as before, after a failed inflate it holds the
\* zero-length file that os.Create left, and a failed build never leaves the
\* path without a file unless there was none before.
C9_ErrorPropagated ==
    Built =>
        /\ Len(calls) = 1
        /\ ret.err = calls[1].err
        /\ (calls[1].fn = "defaultCreateEmptyIsoImage" /\ ret.size # 0) =>
              /\ ret.err \in {Nil, CreateErr(ret.output), InflateErr(ret.output)}
              /\ ret.err = CreateErr(ret.output) => fs[ret.output] = ret.before
              /\ ret.err = InflateErr(ret.output) => fs[ret.output] = RawFile(0, "holes")
        /\ (ret.err # Nil /\ fs[ret.output] = NoFile) => ret.before = NoFile

C9_Witness ==
    /\ Built
    /\ ret.size > 0
    /\ ret.err = InflateErr(ret.output)
    /\ ret.before \in OldFiles
    /\ fs[ret.output] = RawFile(0, "holes")

---------------------------------------------------------------------------
(* Claims about the size resolver, checked under SpecSize *)

Resolved == found.op = "findIsoSize"

Matches(statuses, name) == {i \in 1 .. Len(statuses) : statuses[i].Name = name}

\* C1 as stated: when findIsoSize succeeds and its size is what
\* createIsoConfigImage is called with, the empty-image strategy is invoked
\* exactly when an empty image was wanted and the status has an entry of that
\* name, whatever size the entry records.
C1_EmptyIffWantedAndMatched ==
    (Resolved /\ found.err = Nil /\ Built /\ ret.size = found.size) =>
        (calls[1].kind = "empty"
            <=> (found.emptyIso /\ Matches(found.vmi, found.volume) # {}))

\* C4: with emptyIso and at least one entry of the volume's name, findIsoSize
\* returns the size of the first such entry and no error; without emptyIso it
\* returns 0 and no error, whatever the status holds.
C4_FirstMatchSize ==
    Resolved =>
        /\ (found.emptyIso /\ Matches(found.vmi, found.volume) # {}) =>
              LET first == CHOOSE i \in Matches(found.vmi, found.volume) :
                              \A j \in Matches(found.vmi, found.volume) : i <= j
              IN  found.size = found.vmi[first].Size /\ found.err = Nil
        /\ ~found.emptyIso => (found.size = 0 /\ found.err = Nil)

C4_Witness ==
    /\ Resolved
    /\ found.emptyIso
    /\ Cardinality(Matches(found.vmi, found.volume)) = 2
    /\ found.vmi[1].Size # found.vmi[2].Size
    /\ found.size = found.vmi[1].Size

\* C5: findIsoSize returns the "failed to find the status of volume <name>"
\* error, with size 0, exactly when emptyIso holds and no entry has the
\* volume's name; otherwise it returns nil; and the status is as it was.
C5_NotFoundExactly ==
    Resolved =>
        /\ IF found.emptyIso /\ Matches(found.vmi, found.volume) = {}
           THEN found.err = NotFoundErr(found.volume) /\ found.size = 0
           ELSE found.err = Nil
        /\ vmi = found.vmi

C5_Witness ==
    /\ Resolved
    /\ found.vmi # <<>>
    /\ found.emptyIso
    /\ found.err = NotFoundErr(found.volume)

---------------------------------------------------------------------------
(* Claims about the layout resolver, checked under SpecLayout *)

Listed == layout.op = "getFilesLayout"

\* The entries getFilesLayout should have seen: the immediate entries of the
\* directory dirPath names.
ListedNames == EntryNames(tree, Lookup(tree, layout.dirPath).node)

EntrySet == {layout.files[i] : i \in 1 .. Len(layout.files)}

LiteralEntry(n) == n \o <<"=">> \o layout.dirPath \o <<"/">> \o n

\* C8 as stated: on success one entry per immediate directory entry, each
\* literally "<name>=<sourceDir>/<name>", none for nested content and no
\* duplicates; on failure an error and no entries.
C8_LiteralEntries ==
    Listed =>
        IF layout.err = Nil
        THEN /\ Lookup(tree, layout.dirPath).ok
             /\ EntrySet = {LiteralEntry(n) : n \in ListedNames}
             /\ Len(layout.files) = Cardinality(ListedNames)
        ELSE layout.files = <<>>

\* A path that filepath.Clean leaves as it is and to which "/<name>" can be
\* appended as it stands: not empty, not "/" and not ".", without empty or "."
\* elements, and with ".." only at the start of a relative path.
PlainDir(p) ==
    /\ p # <<>>
    /\ LET comps == Split(p)
           body == IF p[1] = "/" THEN Tail(comps) ELSE comps
       IN  \A i \in 1 .. Len(body) :
              /\ body[i] \notin {<<>>, Dot}
              /\ body[i] = DotDot => (p[1] # "/" /\ \A j \in 1 .. i : body[j] = DotDot)

\* The path part of the entry for name n: everything after "<n>=".
PathOf(entry, n) == SubSeq(entry, Len(n) + 2, Len(entry))

\* The path of an entry is in clean form and names that entry: it is the name
\* itself, or ends in "/<name>" after a prefix that leads to the listed
\* directory, and it has no empty or "." element.
NamesEntry(path, n) ==
    LET pre == SubSeq(path, 1, Len(path) - Len(n))
        comps == Split(path)
        body == IF path[1] = "/" THEN Tail(comps) ELSE comps
    IN  /\ Len(path) >= Len(n)
        /\ SubSeq(path, Len(path) - Len(n) + 1, Len(path)) = n
        /\ pre = <<>> \/ pre[Len(pre)] = "/"
        /\ Walk(tree, Root, Split(pre)) = Lookup(tree, layout.dirPath)
        /\ \A i \in 1 .. Len(body) : body[i] \notin {<<>>, Dot}

\* C8 amended: on success one entry per immediate directory entry, none for
\* nested content and no duplicates, each "<name>=<path>" where <path> is the
\* cleaned join of sourceDir and the name: a path in clean form that names the
\* entry, which is literally "<sourceDir>/<name>" exactly when sourceDir is
\* itself clean and neither "/" nor "."; on failure an error and no entries.
C8_CleanedEntries ==
    Listed =>
        /\ IF layout.err = Nil
           THEN /\ Lookup(tree, layout.dirPath).ok
                /\ Len(layout.files) = Cardinality(ListedNames)
                /\ Cardinality(EntrySet) = Len(layout.files)
                /\ \A e \in EntrySet :
                      \E n \in ListedNames :
                         /\ SubSeq(e, 1, Len(n) + 1) = n \o <<"=">>
                         /\ NamesEntry(PathOf(e, n), n)
                         /\ PlainDir(layout.dirPath) <=> e = LiteralEntry(n)
           ELSE layout.files = <<>>

C8_Witness ==
    /\ Listed
    /\ layout.err = Nil
    /\ layout.dirPath = <<"/", "d", "/">>
    /\ << <<"d">>, <<"a">> >> \in tree.files
    /\ layout.files = << <<"a", "=", "/", "d", "/", "a">>, <<"d", "=", "/", "d", "/", "d">> >>

---------------------------------------------------------------------------
(* Claims about concurrent builds, checked under SpecConc *)

Started(p) == frame[p].op = "createIsoConfigImage"

\* What a build with p's arguments can return and leave at its output path
\* when it runs alone, from the file that was there when it was called.
AloneOutcomes(p) ==
    {[err |-> o.err, file |-> o.file] :
        o \in CreateIsoConfigImageOutcomes(createISOImage, createEmptyISOImage,
                                           frame[p].before, frame[p].output,
                                           frame[p].volID, frame[p].files, frame[p].size)}

\* A finished build whose output path no other build was given has returned
\* and left at its path one of the outcomes of running alone.
C10_EndsAsAlone ==
    \A p \in Procs :
        (/\ pc[p] = "done"
         /\ \A q \in Procs \ {p} : Started(q) => frame[q].output # frame[p].output) =>
            [err |-> frame[p].err, file |-> fs[frame[p].output]] \in AloneOutcomes(p)

\* A step changes a file only if it is a step of a build for that path, and
\* changes neither slot nor the status.
C10_OwnFileOnly ==
    /\ \A path \in OutputPaths :
          fs'[path] # fs[path] =>
             \E p \in Procs : /\ pc'[p] # pc[p]
                              /\ Started(p)
                              /\ frame[p].output = path
    /\ UNCHANGED <<createISOImage, createEmptyISOImage, vmi, found>>

\* C10: builds for different output paths running concurrently, with no
\* setter called: every step of a build changes no file but the one at its own
\* output path, neither slot and no status, and each build returns and leaves
\* at its path what it could have returned and left running alone.
C10_IndependentBuilds == []C10_EndsAsAlone /\ [][C10_OwnFileOnly]_vars

C10_Witness ==
    /\ \A p \in Procs : pc[p] = "done" /\ frame[p].err = Nil
    /\ frame["b1"].output = "p1"
    /\ frame["b2"].output = "p2"
    /\ frame["b2"].overlap
    /\ fs["p1"] = RawFile(frame["b1"].size, "holes")
    /\ fs["p2"] = IsoFile("cfgdata", <<"a=/src/a">>)
    /\ frame["b2"].before # NoFile

===========================================================================
